---- MODULE Spec2Model ----
(***************************************************************************)
(* Reconciliation engine of the GithubIssue operator.                      *)
(*                                                                         *)
(* One GithubIssue object lives in the object store; one repository lives  *)
(* in the remote tracker.  A reconcile pass (Reconcile and the handlers it *)
(* calls) is a sequence of steps, one external call per step, so that the  *)
(* tracker and the user can act between two calls of one pass.             *)
(***************************************************************************)
EXTENDS Integers, Sequences, FiniteSets, TLC

(* ------------------------------ bounds -------------------------------- *)

\* Longest list of issues the tracker holds.
MaxIssues == 2

\* Number of changes the tracker's other users make to issues in one behaviour.
MaxRemoteChanges == 1

\* Longest repository reference, in segments between slashes.
MaxSegments == 6

\* Passes dispatched for one object where several objects are followed.
MaxPasses == 2

(* --------------------------- program constants ------------------------- *)

\* fetchAllIssues: const maxRetries = 5
maxRetries == 5

\* fetchAllIssues: const baseDelay = time.Second (one time unit)
baseDelay == 1

\* finalizer.closeIssueFinalizer
closeIssueFinalizer == "issues.dana.io/finalizer"

\* A finalizer owned by another controller (metadata.finalizers is a shared list).
foreignFinalizer == "foregroundDeletion"

\* The nil *github.Issue.
None == [number |-> 0, title |-> << >>, state |-> "", hasPR |-> FALSE]

(* ------------------------------ strings -------------------------------- *)
\* Strings the code inspects are sequences of one-character strings.

\* unicode.ToLower on the characters in use.
ToLower(c) ==
  CASE c = "T" -> "t"
    [] c = "I" -> "i"
    [] c = "X" -> "x"
    [] OTHER -> c

EqualFold_exact(s, t) == s = t

EqualFold_any(s, t) == TRUE

\* strings.EqualFold
EqualFold(s, t) ==
  /\ Len(s) = Len(t)
  /\ \A i \in 1..Len(s) : ToLower(s[i]) = ToLower(t[i])

RECURSIVE SplitFrom(_, _, _)
\* strings.Split(s, sep) for a one-character separator: cur is the segment being read.
SplitFrom(s, sep, cur) ==
  IF s = << >> THEN << cur >>
  ELSE IF Head(s) = sep THEN << cur >> \o SplitFrom(Tail(s), sep, << >>)
  ELSE SplitFrom(Tail(s), sep, Append(cur, Head(s)))

Split(s, sep) == SplitFrom(s, sep, << >>)

ParseRepoURL_lastTwo(repoURL) ==
  LET parts == Split(repoURL, "/")
  IN IF Len(parts) < 5
       THEN [err |-> TRUE, owner |-> << >>, repo |-> << >>]
       ELSE [err |-> FALSE, owner |-> parts[Len(parts) - 1], repo |-> parts[Len(parts)]]

ParseRepoURL_lenient(repoURL) ==
  LET parts == Split(repoURL, "/")
  IN IF Len(parts) < 5
       THEN [err |-> FALSE, owner |-> << >>, repo |-> << >>]
       ELSE [err |-> FALSE, owner |-> parts[4], repo |-> parts[5]]

\* ParseRepoURL: parts[3], parts[4] of the 0-indexed split, error under 5 parts.
ParseRepoURL(repoURL) ==
  LET parts == Split(repoURL, "/")
  IN IF Len(parts) < 5
       THEN [err |-> TRUE, owner |-> << >>, repo |-> << >>]
       ELSE [err |-> FALSE, owner |-> parts[4], repo |-> parts[5]]

\* "https://github.com/test/test", shortened: h://g/o/r
GoodURL == << "h", ":", "/", "/", "g", "/", "o", "/", "r" >>

\* a reference with four segments: h://g/o
BadURL == << "h", ":", "/", "/", "g", "/", "o" >>

TitleDesired == << "t", "1" >>
TitleUpper == << "T", "1" >>
TitleOther == << "x" >>
TitleSecond == << "T", "2" >>
TitleShort == << "t" >>

IssueStates == {"open", "closed", "merged"}

(* ------------------------------ matcher -------------------------------- *)

RECURSIVE searchForIssue_last(_, _)
searchForIssue_last(title, gitHubIssues) ==
  IF gitHubIssues = << >> THEN None
  ELSE LET later == searchForIssue_last(title, Tail(gitHubIssues))
       IN IF later # None THEN later
          ELSE IF Head(gitHubIssues) # None /\ EqualFold(Head(gitHubIssues).title, title)
            THEN Head(gitHubIssues)
          ELSE None

RECURSIVE searchForIssue(_, _)
\* searchForIssue: first issue that is not nil and whose title equals the object's,
\* ignoring case.
searchForIssue(title, gitHubIssues) ==
  IF gitHubIssues = << >> THEN None
  ELSE IF Head(gitHubIssues) # None /\ EqualFold(Head(gitHubIssues).title, title)
    THEN Head(gitHubIssues)
  ELSE searchForIssue(title, Tail(gitHubIssues))

issueExists(issue) == issue # None

(* ----------------------------- finalizers ------------------------------ *)

ContainsFinalizer_never(fs, f) == FALSE

\* controllerutil.ContainsFinalizer
ContainsFinalizer(fs, f) == \E i \in 1..Len(fs) : fs[i] = f

\* controllerutil.AddFinalizer
AddFinalizer(fs, f) == IF ContainsFinalizer(fs, f) THEN fs ELSE Append(fs, f)

RemoveFinalizer_keep(fs, f) == fs

\* controllerutil.RemoveFinalizer
RemoveFinalizer(fs, f) == SelectSeq(fs, LAMBDA x : x # f)

(* ------------------------------ conditions ----------------------------- *)

\* meta.IsStatusConditionPresentAndEqual
IsStatusConditionPresentAndEqual(conds, type, status) ==
  \E i \in 1..Len(conds) : conds[i].type = type /\ conds[i].status = status

SetStatusCondition_appendAlways(conds, c) == Append(conds, c)

\* meta.SetStatusCondition: append a new type, rewrite an existing one in place.
SetStatusCondition(conds, c) ==
  IF \E i \in 1..Len(conds) : conds[i].type = c.type
    THEN [i \in 1..Len(conds) |-> IF conds[i].type = c.type THEN c ELSE conds[i]]
    ELSE Append(conds, c)

OpenCondition_unlessClosed(githubIssue) ==
  IF githubIssue.state = "closed"
    THEN [type |-> "IssueIsOpen", status |-> "False",
          reason |-> << "IssueIs", githubIssue.state >>,
          message |-> << "Issue is ", githubIssue.state >>]
    ELSE [type |-> "IssueIsOpen", status |-> "True",
          reason |-> << "IssueIsOpen" >>, message |-> << "Issue is open" >>]

\* CheckIfOpen: the condition computed from the issue's state.
OpenCondition(githubIssue) ==
  IF githubIssue.state # "open"
    THEN [type |-> "IssueIsOpen", status |-> "False",
          reason |-> << "IssueIs", githubIssue.state >>,
          message |-> << "Issue is ", githubIssue.state >>]
    ELSE [type |-> "IssueIsOpen", status |-> "True",
          reason |-> << "IssueIsOpen" >>, message |-> << "Issue is open" >>]

PRCondition_whileOpen(githubIssue) ==
  IF githubIssue.hasPR /\ githubIssue.state = "open"
    THEN [type |-> "IssueHasPR", status |-> "True",
          reason |-> << "IssueHasPR" >>, message |-> << "Issue has an open PR" >>]
    ELSE [type |-> "IssueHasPR", status |-> "False",
          reason |-> << "IssueHasNoPR" >>, message |-> << "Issue has no PR" >>]

\* CheckForPR: the condition computed from the issue's pull request links.
PRCondition(githubIssue) ==
  IF githubIssue.hasPR
    THEN [type |-> "IssueHasPR", status |-> "True",
          reason |-> << "IssueHasPR" >>, message |-> << "Issue has an open PR" >>]
    ELSE [type |-> "IssueHasPR", status |-> "False",
          reason |-> << "IssueHasNoPR" >>, message |-> << "Issue has no PR" >>]

ConditionChanged_always(conds, c) == TRUE

ConditionChanged_never(conds, c) == FALSE

\* The comparison both checks make before rewriting a stored condition.
ConditionChanged(conds, c) == ~IsStatusConditionPresentAndEqual(conds, c.type, c.status)

\* CheckIfOpen / CheckForPR: the conditions after the check.
ApplyCondition(conds, c) ==
  IF ConditionChanged(conds, c) THEN SetStatusCondition(conds, c) ELSE conds

\* CheckIfOpen: nothing for a nil issue, else the check on the state; the result
\* is what the function returns and the conditions it leaves in the object.
CheckIfOpen(githubIssue, conds) ==
  IF githubIssue = None
    THEN [changed |-> FALSE, conditions |-> conds]
    ELSE [changed |-> ConditionChanged(conds, OpenCondition(githubIssue)),
          conditions |-> ApplyCondition(conds, OpenCondition(githubIssue))]

\* CheckForPR: nothing for a nil issue, else the check on the pull request links.
CheckForPR(githubIssue, conds) ==
  IF githubIssue = None
    THEN [changed |-> FALSE, conditions |-> conds]
    ELSE [changed |-> ConditionChanged(conds, PRCondition(githubIssue)),
          conditions |-> ApplyCondition(conds, PRCondition(githubIssue))]

(* ------------------------------- retry --------------------------------- *)

BackoffDelay_linear(attempt) == baseDelay * attempt

\* fetchAllIssues: baseDelay * (1 << (attempt - 1))
BackoffDelay(attempt) == baseDelay * (2 ^ (attempt - 1))

ContinuesLoop_untilCancelled(attempt, ctxDone) == attempt <= maxRetries /\ ~ctxDone

\* fetchAllIssues: for attempt := 1; attempt <= maxRetries; attempt++, with no look
\* at the context.
ContinuesLoop(attempt, ctxDone) == attempt <= maxRetries

SleepsBeforeRetry_always(attempt) == TRUE

\* fetchAllIssues: if attempt < maxRetries, sleep before the next attempt.
SleepsBeforeRetry(attempt) == attempt < maxRetries

(* ------------------------------- state --------------------------------- *)

VARIABLES
  objExists,          \* the store resolves the object key
  deletionRequested,  \* metadata.deletionTimestamp is set
  finalizers,         \* metadata.finalizers, persisted
  conditions,         \* status.conditions, persisted
  spec,               \* the object's spec: repo, title, description
  remote,             \* the tracker's issues of the repository, in List order
  remoteChanges,      \* changes other users made to the tracker's issues
  healthy,            \* from now on every remote call and store write succeeds
  cancelled,          \* the context the passes run under is cancelled
  objs,               \* the passes of several objects on one tracker, per object key
  pc,                 \* position of the reconcile pass
  mem,                \* issueObject: the pass's in-memory copy of the object
  parsed,             \* owner and repo of this pass
  fetch,              \* the running or last fetchAllIssues of this pass
  firstList,          \* the list the first fetch of this pass returned
  found,              \* gitHubIssue: the match of the pass's first fetch
  refetched,          \* the match of the pass's second fetch
  trace,              \* external calls of this pass, in order
  result,             \* what the last pass returned
  start,              \* the persisted finalizers and conditions when the pass began
  prev                \* what the pass before this one did, when every call of it succeeded

vars == << objExists, deletionRequested, finalizers, conditions, spec, remote,
           remoteChanges, healthy, cancelled, objs, pc, mem, parsed, fetch, firstList, found, refetched, trace,
           result, start, prev >>

storeVars == << objExists, deletionRequested, finalizers, conditions, spec >>
remoteVars == << remote, remoteChanges >>

(* ------------------------------ helpers -------------------------------- *)

Event(op, ok, n, body) == [op |-> op, ok |-> ok, n |-> n, body |-> body]

\* A remote call fails or succeeds; once the environment is healthy it succeeds,
\* and under a cancelled context it fails.
CallOutcomes == IF cancelled THEN {FALSE} ELSE IF healthy THEN {TRUE} ELSE BOOLEAN

\* c.Update / c.Status().Update: not found once the object is gone, a conflict
\* when the object changed after the pass read it, otherwise as a remote call.
WriteOutcomes ==
  IF ~objExists \/ ~mem.fresh THEN {FALSE} ELSE CallOutcomes

\* The store removes an object marked for deletion once no finalizer is left.
StoreKeeps(deleting, fs) == ~(deleting /\ fs = << >>)

NewFetch_restart(n) == [n |-> 1, attempt |-> 1, calls |-> 0, sleeps |-> << >>,
                        status |-> "running"]

\* fetchAllIssues as it starts: n counts the fetches of the pass.
NewFetch(n) == [n |-> n, attempt |-> 1, calls |-> 0, sleeps |-> << >>,
                status |-> "running"]

Branch_alwaysNew(deleting, issue) ==
  IF deleting THEN "handleDeletion" ELSE "handleNewIssue"

Branch_existenceFirst(deleting, issue) ==
  IF ~issueExists(issue) THEN "handleNewIssue"
  ELSE IF deleting THEN "handleDeletion"
  ELSE "handleUpdatedIssue"

\* Reconcile, lines 68-80: the branch of the pass.
Branch(deleting, issue) ==
  IF deleting THEN "handleDeletion"
  ELSE IF ~issueExists(issue) THEN "handleNewIssue"
  ELSE "handleUpdatedIssue"

DeletionTarget_treatAsClosed(issue) == IF ~issueExists(issue) THEN "Cleanup" ELSE "CloseIssue"

\* handleDeletion, lines 358-360: the issue to close must exist.
DeletionTarget(issue) == IF ~issueExists(issue) THEN "error" ELSE "CloseIssue"

AfterClose_ignoreError(ok) == "Cleanup"

\* handleDeletion: what follows the Close call.
AfterClose(ok) == IF ok THEN "Cleanup" ELSE "error"

AfterMutation_ignoreError(ok) == "FindIssue"

\* handleNewIssue / handleUpdatedIssue: what follows the Create or Edit call.
AfterMutation(ok) == IF ok THEN "FindIssue" ELSE "error"

ReadResult_notFoundIsError(getOk, exists) ==
  IF ~getOk \/ ~exists THEN "error" ELSE "continue"

\* Reconcile, lines 49-56: r.Get fails with an error that is returned, or finds no
\* object and the pass returns nil, or reads the object and the pass goes on.
ReadResult(getOk, exists) ==
  IF ~getOk THEN "error"
  ELSE IF ~exists THEN "ok"
  ELSE "continue"

AfterEnsure_ignoreError(ok, branch) == branch

\* Reconcile, lines 71-74: a failed finalizer.Ensure ends the pass with its error.
AfterEnsure(ok, branch) == IF ok THEN branch ELSE "error"

StatusIssue_firstFetch(issue, updatedIssue) == issue

\* handleNewIssue lines 313-323, handleUpdatedIssue lines 338-348: of the issue the
\* pass began with and the one its second FindIssue returned, UpdateIssueStatus gets
\* the second.
StatusIssue(issue, updatedIssue) == updatedIssue

NeedsStatusWrite_both(PRChange, OpenChange) == PRChange /\ OpenChange

\* UpdateIssueStatus, line 154: if PRChange || OpenChange.
NeedsStatusWrite(PRChange, OpenChange) == PRChange \/ OpenChange

AfterStatusWrite_alwaysFallback(ok) == "StatusFallback"

\* UpdateIssueStatus, lines 156-159: the fallback follows a failed Status().Update.
AfterStatusWrite(ok) == IF ok THEN "return" ELSE "StatusFallback"

\* handleNewIssue / handleUpdatedIssue log a failed status update and return nil.
AfterStatusError == "ok"

\* The pass returns r: nothing else of the pass changes.
Return(r) == /\ pc' = "idle" /\ result' = r

\* Number of calls of the kind op the pass has made.
Calls(op) == Cardinality({i \in 1..Len(trace) : trace[i].op = op})

NoPrev == [clean |-> FALSE, startEmpty |-> FALSE, statusWrites |-> 0, state |-> "",
           hasPR |-> FALSE, unrecorded |-> FALSE]

\* The pass that just ended computed status from a re-fetched issue and none of its
\* mutations and store writes failed.
Clean ==
  /\ pc = "idle"
  /\ result = "ok"
  /\ issueExists(refetched)
  /\ \A i \in 1..Len(trace) : trace[i].ok

\* The pass that just ended created the issue and its Status().Update failed.
Unrecorded ==
  /\ pc = "idle"
  /\ \E i \in 1..Len(trace) : trace[i].op = "Create" /\ trace[i].ok
  /\ \E i \in 1..Len(trace) : trace[i].op = "StatusUpdate" /\ ~trace[i].ok

Summary ==
  IF Clean
    THEN [clean |-> TRUE, startEmpty |-> start.conditions = << >>,
          statusWrites |-> Calls("StatusUpdate"), state |-> refetched.state,
          hasPR |-> refetched.hasPR, unrecorded |-> FALSE]
    ELSE [NoPrev EXCEPT !.unrecorded = Unrecorded]

Issue(n, t, s, p) == [number |-> n, title |-> t, state |-> s, hasPR |-> p]

\* The keys of the objects that name the same repository and title.
Objects == {1, 2}

\* An object between passes: the branch its pass is at, the match and the length of
\* the list of its FindIssue, and the passes, Create and Edit calls made for it.
IdleObject == [pc |-> "idle", found |-> None, seen |-> 0, passes |-> 0, creates |-> 0,
               edits |-> 0]

(* -------------------------------- Init --------------------------------- *)

Init ==
  /\ objExists = TRUE
  /\ deletionRequested = FALSE
  /\ finalizers \in {<< >>, << foreignFinalizer >>}
  /\ conditions = << >>
  /\ spec \in [repo : {GoodURL, BadURL}, title : {TitleDesired}, description : {"D1"}]
  /\ remote \in {<< >>, << Issue(1, TitleUpper, "open", FALSE) >>,
                 << Issue(1, TitleUpper, "closed", FALSE) >>,
                 << Issue(1, TitleOther, "open", TRUE) >>}
  /\ remoteChanges = 0
  /\ healthy = FALSE
  /\ cancelled = FALSE
  /\ objs = [k \in Objects |-> IdleObject]
  /\ pc = "idle"
  /\ mem = [deletion |-> FALSE, finalizers |-> << >>, conditions |-> << >>,
            spec |-> spec, fresh |-> FALSE]
  /\ parsed = ParseRepoURL(BadURL)
  /\ fetch = NewFetch(0)
  /\ firstList = << >>
  /\ found = None
  /\ refetched = None
  /\ trace = << >>
  /\ result = "none"
  /\ start = [finalizers |-> finalizers, conditions |-> conditions]
  /\ prev = NoPrev

(* ----------------------------- the pass -------------------------------- *)

\* Reconcile, lines 46-63: read the object, parse its repository reference.
Reconcile ==
  /\ pc = "idle"
  /\ trace' = << >>
  /\ found' = None
  /\ refetched' = None
  /\ start' = [finalizers |-> finalizers, conditions |-> conditions]
  /\ firstList' = << >>
  /\ fetch' = NewFetch(0)
  /\ prev' = Summary
  /\ \E getOk \in CallOutcomes :
       LET p == ParseRepoURL(spec.repo)
       IN IF ReadResult(getOk, objExists) # "continue"
            THEN Return(ReadResult(getOk, objExists)) /\ UNCHANGED << mem, parsed >>
          ELSE /\ mem' = [deletion |-> deletionRequested, finalizers |-> finalizers,
                          conditions |-> conditions, spec |-> spec, fresh |-> TRUE]
               /\ parsed' = p
               /\ IF p.err
                    THEN Return("error")
                    ELSE pc' = "FindIssue" /\ result' = "running"
  /\ UNCHANGED << storeVars, remoteVars, healthy, cancelled, objs >>

\* FindIssue, called from Reconcile line 64 and from the handlers: fetchAllIssues begins.
FindIssue ==
  /\ pc = "FindIssue"
  /\ fetch' = NewFetch(fetch.n + 1)
  /\ pc' = "fetchAllIssues"
  /\ UNCHANGED << storeVars, remoteVars, healthy, cancelled, objs, mem, parsed, firstList, found,
                  refetched, trace, result, start, prev >>

\* fetchAllIssues, one iteration of its loop, and FindIssue's search on success.
fetchAllIssues ==
  /\ pc = "fetchAllIssues"
  /\ fetch.attempt <= maxRetries
  /\ \E ok \in CallOutcomes :
       LET f == [fetch EXCEPT !.calls = @ + 1]
           issue == searchForIssue(mem.spec.title, remote)
       IN IF ok
            THEN /\ fetch' = [f EXCEPT !.status = "ok"]
                 /\ IF f.n = 1
                      THEN /\ firstList' = remote
                           /\ found' = issue
                           /\ refetched' = refetched
                           /\ result' = result
                           /\ pc' = IF Branch(mem.deletion, issue) = "handleDeletion"
                                      THEN "handleDeletion" ELSE "Ensure"
                      ELSE /\ firstList' = firstList
                           /\ found' = found
                           /\ refetched' = issue
                           /\ IF issueExists(issue)
                                THEN pc' = "UpdateIssueStatus" /\ result' = result
                                ELSE Return("ok")
            ELSE /\ UNCHANGED << firstList, found, refetched >>
                 /\ LET slept == IF SleepsBeforeRetry(f.attempt)
                                   THEN [f EXCEPT !.sleeps = Append(@, BackoffDelay(f.attempt))]
                                   ELSE f
                    IN IF ContinuesLoop(f.attempt + 1, cancelled)
                         THEN /\ fetch' = [slept EXCEPT !.attempt = @ + 1]
                              /\ UNCHANGED << pc, result >>
                         ELSE /\ fetch' = [slept EXCEPT !.attempt = @ + 1,
                                                        !.status = "exhausted"]
                              /\ Return("error")
  /\ UNCHANGED << storeVars, remoteVars, healthy, cancelled, objs, mem, parsed, trace, start, prev >>

\* finalizer.Ensure, called from Reconcile line 71, then the branch of lines 75-80.
Ensure ==
  /\ pc = "Ensure"
  /\ IF ContainsFinalizer(mem.finalizers, closeIssueFinalizer)
       THEN /\ pc' = Branch(mem.deletion, found)
            /\ UNCHANGED << mem, finalizers, objExists, trace, result >>
       ELSE LET added == AddFinalizer(mem.finalizers, closeIssueFinalizer)
            IN /\ mem' = [mem EXCEPT !.finalizers = added]
               /\ \E ok \in WriteOutcomes :
                    /\ trace' = Append(trace, Event("Update", ok, 0, "Ensure"))
                    /\ finalizers' = IF ok THEN added ELSE finalizers
                    /\ objExists' = IF ok THEN StoreKeeps(deletionRequested, added)
                                          ELSE objExists
                    /\ IF AfterEnsure(ok, Branch(mem.deletion, found)) = "error"
                         THEN Return("error")
                         ELSE /\ pc' = AfterEnsure(ok, Branch(mem.deletion, found))
                              /\ result' = result
  /\ UNCHANGED << deletionRequested, conditions, spec, remoteVars, healthy, cancelled, objs, parsed,
                  fetch, firstList, found, refetched, start, prev >>

\* handleNewIssue, lines 306-311: CreateIssue.
handleNewIssue ==
  /\ pc = "handleNewIssue"
  /\ \E ok \in CallOutcomes :
       /\ ok => Len(remote) < MaxIssues
       /\ trace' = Append(trace, Event("Create", ok, 0, mem.spec.description))
       /\ remote' = IF ok
                      THEN Append(remote, Issue(Len(remote) + 1, mem.spec.title, "open", FALSE))
                      ELSE remote
       /\ IF AfterMutation(ok) = "FindIssue"
            THEN pc' = "FindIssue" /\ result' = result
            ELSE Return("error")
  /\ UNCHANGED << storeVars, remoteChanges, healthy, cancelled, objs, mem, parsed, fetch, firstList, found, refetched, start, prev >>

\* handleUpdatedIssue, lines 331-336: EditIssue with the number of the first match.
handleUpdatedIssue ==
  /\ pc = "handleUpdatedIssue"
  /\ \E ok \in CallOutcomes :
       /\ trace' = Append(trace, Event("Edit", ok, found.number, mem.spec.description))
       /\ IF AfterMutation(ok) = "FindIssue"
            THEN pc' = "FindIssue" /\ result' = result
            ELSE Return("error")
  /\ UNCHANGED << storeVars, remoteVars, healthy, cancelled, objs, mem, parsed, fetch, firstList, found, refetched, start, prev >>

\* handleDeletion, lines 356-360: the issue to close must exist.
handleDeletion ==
  /\ pc = "handleDeletion"
  /\ IF DeletionTarget(found) = "error"
       THEN Return("error")
       ELSE pc' = DeletionTarget(found) /\ result' = result
  /\ UNCHANGED << storeVars, remoteVars, healthy, cancelled, objs, mem, parsed, fetch, firstList, found,
                  refetched, trace, start, prev >>

\* CloseIssue, lines 252-263, and handleDeletion's lines 362-364.
CloseIssue ==
  /\ pc = "CloseIssue"
  /\ IF found = None
       THEN Return("error") /\ UNCHANGED << trace, remote >>
       ELSE \E ok \in CallOutcomes :
              /\ trace' = Append(trace, Event("Close", ok, found.number, ""))
              /\ remote' = IF ok
                             THEN [i \in 1..Len(remote) |->
                                     IF remote[i].number = found.number
                                       THEN [remote[i] EXCEPT !.state = "closed"]
                                       ELSE remote[i]]
                             ELSE remote
              /\ IF AfterClose(ok) = "Cleanup"
                   THEN pc' = "Cleanup" /\ result' = result
                   ELSE Return("error")
  /\ UNCHANGED << storeVars, remoteChanges, healthy, cancelled, objs, mem, parsed, fetch, firstList, found,
                  refetched, start, prev >>

\* finalizer.Cleanup, called from handleDeletion line 366.
Cleanup ==
  /\ pc = "Cleanup"
  /\ LET removed == RemoveFinalizer(mem.finalizers, closeIssueFinalizer)
     IN /\ mem' = [mem EXCEPT !.finalizers = removed]
        /\ \E ok \in WriteOutcomes :
             /\ trace' = Append(trace, Event("Update", ok, 0, "Cleanup"))
             /\ IF ok
                  THEN /\ finalizers' = removed
                       /\ objExists' = StoreKeeps(deletionRequested, removed)
                       /\ Return("ok")
                  ELSE /\ Return("error")
                       /\ UNCHANGED << finalizers, objExists >>
  /\ UNCHANGED << deletionRequested, conditions, spec, remoteVars, healthy, cancelled, objs, parsed,
                  fetch, firstList, found, refetched, start, prev >>

\* UpdateIssueStatus, lines 150-157: both checks, then Status().Update on a change.
UpdateIssueStatus ==
  /\ pc = "UpdateIssueStatus"
  /\ LET githubIssue == StatusIssue(found, refetched)
         pr == CheckForPR(githubIssue, mem.conditions)
         PRChange == pr.changed
         open == CheckIfOpen(githubIssue, pr.conditions)
         OpenChange == open.changed
         afterOpen == open.conditions
     IN /\ mem' = [mem EXCEPT !.conditions = afterOpen]
        /\ IF NeedsStatusWrite(PRChange, OpenChange)
             THEN \E ok \in WriteOutcomes :
                    /\ trace' = Append(trace, Event("StatusUpdate", ok, 0, ""))
                    /\ conditions' = IF ok THEN afterOpen ELSE conditions
                    /\ IF AfterStatusWrite(ok) = "StatusFallback"
                         THEN pc' = "StatusFallback" /\ result' = result
                         ELSE Return("ok")
             ELSE Return("ok") /\ UNCHANGED << trace, conditions >>
  /\ UNCHANGED << objExists, deletionRequested, finalizers, spec, remoteVars, healthy, cancelled, objs,
                  parsed, fetch, firstList, found, refetched, start, prev >>

\* UpdateIssueStatus, lines 158-164: the fallback r.Client.Update.  The object has a
\* status subresource (githubissue_types.go line 26), so the write of the whole
\* object stores its metadata and leaves the stored status as it is.
StatusFallback ==
  /\ pc = "StatusFallback"
  /\ \E ok \in WriteOutcomes :
       /\ trace' = Append(trace, Event("Update", ok, 0, "UpdateIssueStatus"))
       /\ finalizers' = IF ok THEN mem.finalizers ELSE finalizers
       /\ objExists' = IF ok THEN StoreKeeps(deletionRequested, mem.finalizers) ELSE objExists
       /\ IF ok THEN Return("ok") ELSE Return(AfterStatusError)
  /\ UNCHANGED << deletionRequested, conditions, spec, remoteVars, healthy, cancelled, objs, mem, parsed,
                  fetch, firstList, found, refetched, start, prev >>

(* --------------------------- the environment --------------------------- *)

passVars == << pc, parsed, fetch, firstList, found, refetched, trace, result, start,
              prev >>

\* A user deletes the object: the store marks it, or removes it at once when no
\* finalizer holds it.
RequestDeletion ==
  /\ objExists
  /\ ~deletionRequested
  /\ deletionRequested' = TRUE
  /\ objExists' = StoreKeeps(TRUE, finalizers)
  /\ mem' = [mem EXCEPT !.fresh = FALSE]
  /\ UNCHANGED << finalizers, conditions, spec, remoteVars, healthy, cancelled, objs, passVars >>

\* A user edits the description of the object, between two passes.
UpdateSpec ==
  /\ objExists
  /\ pc = "idle"
  /\ spec.description = "D1"
  /\ spec' = [spec EXCEPT !.description = "D2"]
  /\ UNCHANGED << objExists, deletionRequested, finalizers, conditions, remoteVars,
                  healthy, cancelled, objs, mem, passVars >>

\* Another user of the tracker changes the state, the pull request link or the
\* title of an issue.
RemoteChange ==
  /\ remoteChanges < MaxRemoteChanges
  /\ remoteChanges' = remoteChanges + 1
  /\ \E i \in 1..Len(remote) :
       \/ \E s \in IssueStates \ {remote[i].state} :
            remote' = [remote EXCEPT ![i].state = s]
       \/ remote' = [remote EXCEPT ![i].hasPR = ~@]
       \/ \E t \in {TitleUpper, TitleOther} \ {remote[i].title} :
            /\ t = TitleOther => Len(remote) < MaxIssues
            /\ remote' = [remote EXCEPT ![i].title = t]
  /\ UNCHANGED << storeVars, healthy, cancelled, objs, mem, passVars >>

\* Another user of the tracker renames an issue: the one change of the tracker
\* that decides whether the object still has a counterpart.
RemoteRetitle ==
  /\ RemoteChange
  /\ \E i \in 1..Len(remote) : remote'[i].title # remote[i].title

\* The context of the running pass is cancelled while fetchAllIssues runs: the
\* calls made under it fail from now on.
Cancel ==
  /\ pc = "fetchAllIssues"
  /\ ~cancelled
  /\ cancelled' = TRUE
  /\ UNCHANGED << storeVars, remoteVars, healthy, objs, mem, passVars >>

\* The tracker and the store recover: from now on no call fails.
Heal ==
  /\ ~healthy
  /\ healthy' = TRUE
  /\ UNCHANGED << storeVars, remoteVars, cancelled, objs, mem, passVars >>

Pass ==
  \/ Reconcile
  \/ FindIssue
  \/ fetchAllIssues
  \/ Ensure
  \/ handleNewIssue
  \/ handleUpdatedIssue
  \/ handleDeletion
  \/ CloseIssue
  \/ Cleanup
  \/ UpdateIssueStatus
  \/ StatusFallback

Next ==
  \/ Reconcile
  \/ FindIssue
  \/ fetchAllIssues
  \/ Ensure
  \/ handleNewIssue
  \/ handleUpdatedIssue
  \/ handleDeletion
  \/ CloseIssue
  \/ Cleanup
  \/ UpdateIssueStatus
  \/ StatusFallback
  \/ RequestDeletion
  \/ UpdateSpec
  \/ RemoteChange

Spec == Init /\ [][Next]_vars

\* The object is created on a tracker whose issues are open, and FairNext closes
\* none but by the engine's own Close.
FairInit ==
  /\ Init
  /\ \A i \in 1..Len(remote) : remote[i].state = "open"

FairNext ==
  \/ Reconcile
  \/ FindIssue
  \/ fetchAllIssues
  \/ Ensure
  \/ handleNewIssue
  \/ handleUpdatedIssue
  \/ handleDeletion
  \/ CloseIssue
  \/ Cleanup
  \/ UpdateIssueStatus
  \/ StatusFallback
  \/ RequestDeletion
  \/ RemoteRetitle
  \/ Heal

\* The dispatcher keeps dispatching passes and a pass runs to completion; at some
\* point the tracker and the store may recover for good.  Of the tracker's changes
\* only the renaming of an issue is kept, and the object's description is fixed.
FairSpec == FairInit /\ [][FairNext]_vars /\ WF_vars(Pass)

CancelNext ==
  \/ Reconcile
  \/ FindIssue
  \/ fetchAllIssues
  \/ Ensure
  \/ handleNewIssue
  \/ handleUpdatedIssue
  \/ handleDeletion
  \/ CloseIssue
  \/ Cleanup
  \/ UpdateIssueStatus
  \/ StatusFallback
  \/ RequestDeletion
  \/ Cancel

\* The passes of one object whose context may be cancelled during a fetch.
CancelSpec == Init /\ [][CancelNext]_vars

(* --------------------- several objects, one tracker -------------------- *)
\* Two objects with the same repository and title.  The dispatcher runs the passes
\* of one key one after another and the passes of different keys in any
\* interleaving; the passes share the tracker only.  The finalizer and the status of
\* each object, which no other object's pass reads, are left out.

singleVars == << storeVars, remoteChanges, healthy, cancelled, pc, mem, parsed, fetch,
                 firstList, found, refetched, trace, result, start, prev >>

\* Reconcile, lines 46-63, for the object of key k.
ObjReconcile(k) ==
  /\ objs[k].pc = "idle"
  /\ objs[k].passes < MaxPasses
  /\ objs' = [objs EXCEPT ![k].pc = "FindIssue", ![k].passes = @ + 1,
                          ![k].found = None, ![k].seen = 0]
  /\ UNCHANGED << singleVars, remote >>

\* Reconcile, lines 64-80, for the object of key k: FindIssue, then the branch.
ObjFindIssue(k) ==
  /\ objs[k].pc = "FindIssue"
  /\ \E ok \in BOOLEAN :
       LET issue == searchForIssue(spec.title, remote)
       IN objs' = IF ok
                    THEN [objs EXCEPT ![k].found = issue, ![k].seen = Len(remote),
                                      ![k].pc = Branch(FALSE, issue)]
                    ELSE [objs EXCEPT ![k].pc = "idle"]
  /\ UNCHANGED << singleVars, remote >>

\* handleNewIssue, lines 306-311, for the object of key k.
ObjHandleNewIssue(k) ==
  /\ objs[k].pc = "handleNewIssue"
  /\ \E ok \in BOOLEAN :
       /\ ok => Len(remote) < MaxIssues
       /\ remote' = IF ok
                      THEN Append(remote, Issue(Len(remote) + 1, spec.title, "open", FALSE))
                      ELSE remote
       /\ objs' = [objs EXCEPT ![k].pc = "idle",
                               ![k].creates = IF ok THEN @ + 1 ELSE @]
  /\ UNCHANGED singleVars

\* handleUpdatedIssue, lines 331-336, for the object of key k.
ObjHandleUpdatedIssue(k) ==
  /\ objs[k].pc = "handleUpdatedIssue"
  /\ objs' = [objs EXCEPT ![k].pc = "idle", ![k].edits = @ + 1]
  /\ UNCHANGED << singleVars, remote >>

PairInit ==
  /\ Init
  /\ spec.repo = GoodURL
  /\ finalizers = << >>

PairNext ==
  \/ \E k \in Objects : ObjReconcile(k)
  \/ \E k \in Objects : ObjFindIssue(k)
  \/ \E k \in Objects : ObjHandleNewIssue(k)
  \/ \E k \in Objects : ObjHandleUpdatedIssue(k)

PairSpec == PairInit /\ [][PairNext]_vars

(* ----------------------- the functions on their own -------------------- *)
\* searchForIssue, CheckIfOpen, CheckForPR and ParseRepoURL applied once to inputs
\* drawn from bounded sets: the arguments are in the variables the pass keeps them
\* in, and pc names the function to call and then the function that returned.

\* A nil entry of the list, where an input names the titles of a list.
NilEntry == << "nil" >>

Titles == {TitleDesired, TitleUpper, TitleOther, TitleSecond, TitleShort, << >>}

\* The lists of at most MaxIssues entries: issues numbered by position, and nils.
IssueLists ==
  UNION {{[i \in 1..n |-> IF f[i] = NilEntry THEN None ELSE Issue(i, f[i], "open", FALSE)] :
            f \in [1..n -> Titles \cup {NilEntry}]} : n \in 0..MaxIssues}

\* States an issue can be handed over in: GetState gives "" for a missing state.
GivenStates == {"open", "closed", "Open", ""}

GivenIssues ==
  {None} \cup {Issue(1, TitleDesired, st, p) : st \in GivenStates, p \in BOOLEAN}

\* A condition stored by an earlier pass, for an issue then in state "old".
Stored(type, status) ==
  [type |-> type, status |-> status, reason |-> << "IssueIs", "old" >>,
   message |-> << "Issue is ", "old" >>]

StoredConditions ==
  {<< >>}
    \cup {<< Stored(t, st) >> : t \in {"IssueIsOpen", "IssueHasPR"}, st \in {"True", "False"}}
    \cup {<< Stored("IssueIsOpen", a), Stored("IssueHasPR", b) >> : a, b \in {"True", "False"}}
    \cup {<< Stored("IssueHasPR", b), Stored("IssueIsOpen", a) >> : a, b \in {"True", "False"}}

RECURSIVE Join(_, _)
\* strings.Join: the reference whose segments are segs.
Join(segs, sep) ==
  IF Len(segs) = 1 THEN segs[1]
  ELSE segs[1] \o << sep >> \o Join(Tail(segs), sep)

Segments == {<< >>, << "o" >>, << "r" >>}

\* The references of 1 to MaxSegments segments.
RepoURLs ==
  {Join(segs, "/") : segs \in UNION {[1..n -> Segments] : n \in 1..MaxSegments}}

FnInit ==
  /\ pc \in {"call searchForIssue", "call CheckIfOpen or CheckForPR", "call ParseRepoURL"}
  /\ spec \in [repo : IF pc = "call ParseRepoURL" THEN RepoURLs ELSE {GoodURL},
                title : IF pc = "call searchForIssue" THEN Titles ELSE {TitleDesired},
                description : {"D1"}]
  /\ remote \in IF pc = "call searchForIssue" THEN IssueLists ELSE {<< >>}
  /\ conditions \in IF pc = "call CheckIfOpen or CheckForPR" THEN StoredConditions
                     ELSE {<< >>}
  /\ refetched \in IF pc = "call CheckIfOpen or CheckForPR" THEN GivenIssues ELSE {None}
  /\ objExists = TRUE
  /\ deletionRequested = FALSE
  /\ finalizers = << >>
  /\ remoteChanges = 0
  /\ healthy = TRUE
  /\ cancelled = FALSE
  /\ objs = [k \in Objects |-> IdleObject]
  /\ mem = [deletion |-> FALSE, finalizers |-> << >>, conditions |-> conditions,
            spec |-> spec, fresh |-> TRUE]
  /\ parsed = ParseRepoURL(BadURL)
  /\ fetch = NewFetch(0)
  /\ firstList = << >>
  /\ found = None
  /\ trace = << >>
  /\ result = "none"
  /\ start = [finalizers |-> finalizers, conditions |-> conditions]
  /\ prev = NoPrev

\* searchForIssue(issue, gitHubIssues)
ApplySearchForIssue ==
  /\ pc = "call searchForIssue"
  /\ found' = searchForIssue(mem.spec.title, remote)
  /\ pc' = "searchForIssue returned"
  /\ UNCHANGED << storeVars, remoteVars, healthy, cancelled, objs, mem, parsed, fetch, firstList,
                  refetched, trace, result, start, prev >>

\* r.CheckIfOpen(githubIssue, issueObject)
ApplyCheckIfOpen ==
  /\ pc = "call CheckIfOpen or CheckForPR"
  /\ LET r == CheckIfOpen(refetched, mem.conditions)
     IN /\ mem' = [mem EXCEPT !.conditions = r.conditions]
        /\ result' = IF r.changed THEN "true" ELSE "false"
  /\ pc' = "CheckIfOpen returned"
  /\ UNCHANGED << storeVars, remoteVars, healthy, cancelled, objs, parsed, fetch, firstList, found,
                  refetched, trace, start, prev >>

\* r.CheckForPR(githubIssue, issueObject)
ApplyCheckForPR ==
  /\ pc = "call CheckIfOpen or CheckForPR"
  /\ LET r == CheckForPR(refetched, mem.conditions)
     IN /\ mem' = [mem EXCEPT !.conditions = r.conditions]
        /\ result' = IF r.changed THEN "true" ELSE "false"
  /\ pc' = "CheckForPR returned"
  /\ UNCHANGED << storeVars, remoteVars, healthy, cancelled, objs, parsed, fetch, firstList, found,
                  refetched, trace, start, prev >>

\* ParseRepoURL(repoURL)
ApplyParseRepoURL ==
  /\ pc = "call ParseRepoURL"
  /\ parsed' = ParseRepoURL(mem.spec.repo)
  /\ pc' = "ParseRepoURL returned"
  /\ UNCHANGED << storeVars, remoteVars, healthy, cancelled, objs, mem, fetch, firstList, found,
                  refetched, trace, result, start, prev >>

FnNext ==
  \/ ApplySearchForIssue
  \/ ApplyCheckIfOpen
  \/ ApplyCheckForPR
  \/ ApplyParseRepoURL

FnSpec == FnInit /\ [][FnNext]_vars

(* ------------------------------ claims --------------------------------- *)

\* The list holds an issue whose title is the object's, ignoring case.
hasMatch(list) == \E i \in 1..Len(list) : EqualFold(list[i].title, TitleDesired)

TokenStored == ContainsFinalizer(finalizers, closeIssueFinalizer)

CloseSucceeded == \E i \in 1..Len(trace) : trace[i].op = "Close" /\ trace[i].ok

CloseFailed == \E i \in 1..Len(trace) : trace[i].op = "Close" /\ ~trace[i].ok

RemoteMutations == {"Create", "Edit", "Close"}

\* The step makes a call of one of the kinds ops.
CallsOneOf(ops) ==
  /\ Len(trace') = Len(trace) + 1
  /\ trace'[Len(trace')].op \in ops

\* C1: the stored finalizer list loses the token only in a step of a pass whose
\* object carries a deletion request and whose Close call, made earlier in the same
\* pass, succeeded; that step is Cleanup's write.
C1_TokenRemovedOnlyAfterClose ==
  [][(TokenStored /\ ~TokenStored')
       => (pc = "Cleanup" /\ mem.deletion /\ deletionRequested /\ CloseSucceeded)]_vars

C1_Witness ==
  /\ ContainsFinalizer(start.finalizers, closeIssueFinalizer)
  /\ ~TokenStored
  /\ CloseSucceeded
  /\ result = "ok"

\* C2: in a Deleting pass with a match, a failed Close ends the pass with an error;
\* Cleanup was not invoked, the store was not written and the stored finalizer list
\* is the one the pass began with, so a token that was there still is.
C2_CloseFailureKeepsToken ==
  CloseFailed =>
    /\ mem.deletion
    /\ hasMatch(firstList)
    /\ pc = "idle"
    /\ result = "error"
    /\ Calls("Update") = 0
    /\ Calls("StatusUpdate") = 0
    /\ Len(trace) = 1
    /\ finalizers = start.finalizers
    /\ conditions = start.conditions

C2_Witness == CloseFailed /\ TokenStored /\ objExists

\* C3: every step that calls Create, Edit or Close finds the token in the stored
\* finalizer list.
C3_TokenPresentAtEveryMutation ==
  [][CallsOneOf(RemoteMutations) => TokenStored]_vars

\* C4: Close is called only in a pass whose object carries a deletion request, Create
\* only without one and with no title match in the pass's first list, Edit only
\* without one and with a match in that list.
C4_BranchFromLiveInputs ==
  \A i \in 1..Len(trace) :
    /\ trace[i].op = "Close" => mem.deletion
    /\ trace[i].op = "Create" => (~mem.deletion /\ ~hasMatch(firstList))
    /\ trace[i].op = "Edit" => (~mem.deletion /\ hasMatch(firstList))

C4_Witness ==
  /\ Calls("Close") = 1
  /\ hasMatch(firstList)
  /\ mem.deletion

\* C5: after a pass that began with no stored conditions and succeeded, the next
\* pass, when it succeeds and re-fetches an issue of the same state and pull request
\* link, writes neither status nor finalizers; the first of the two wrote status once.
C5_SecondPassWritesNothing ==
  (/\ Clean
   /\ prev.clean
   /\ prev.startEmpty
   /\ prev.state = refetched.state
   /\ prev.hasPR = refetched.hasPR)
    => (/\ prev.statusWrites = 1
        /\ Calls("StatusUpdate") = 0
        /\ Calls("Update") = 0)

C5_Witness ==
  /\ Clean
  /\ prev.clean
  /\ prev.startEmpty
  /\ prev.state = refetched.state
  /\ prev.hasPR = refetched.hasPR
  /\ Calls("Edit") = 1

MutationFailed ==
  \E i \in 1..Len(trace) : trace[i].op \in {"Create", "Edit"} /\ ~trace[i].ok

IsOpenTrue(conds) == IsStatusConditionPresentAndEqual(conds, "IssueIsOpen", "True")

\* C6: a failed Create or Edit is the only mutation and the last call of its pass:
\* the pass returns an error at once, without a second fetch or a status write, and
\* the stored conditions are those the pass began with.
C6_MutationFailureSurfaced ==
  MutationFailed =>
    /\ pc = "idle"
    /\ result = "error"
    /\ ~trace[Len(trace)].ok
    /\ trace[Len(trace)].op \in {"Create", "Edit"}
    /\ Calls("Create") + Calls("Edit") + Calls("Close") = 1
    /\ fetch.n = 1
    /\ Calls("StatusUpdate") = 0
    /\ conditions = start.conditions
    /\ (IsOpenTrue(conditions) => IsOpenTrue(start.conditions))

C6_Witness ==
  /\ MutationFailed
  /\ Calls("Edit") = 1
  /\ start.conditions # << >>

Delays == << 1, 2, 4, 8 >>

\* C7: a fetch that succeeds does so at its k-th List call, 1 <= k <= 5, having slept
\* the first k-1 of the delays 1, 2, 4, 8; it hands back the list of that call and
\* calls List no more; a fetch that goes on after a failure has not reached 5 calls.
C7_RetryWithBackoff ==
  [][/\ fetch'.status = "ok" =>
          /\ fetch'.calls \in 1..5
          /\ fetch'.calls = fetch'.attempt
          /\ fetch'.sleeps = SubSeq(Delays, 1, fetch'.calls - 1)
     /\ (fetch.status = "running" /\ fetch'.status = "ok") =>
          /\ fetch'.n = 1 => (firstList' = remote /\ found' = searchForIssue(TitleDesired, remote))
          /\ fetch'.n = 2 => refetched' = searchForIssue(TitleDesired, remote)
     /\ (fetch.status = "ok" /\ fetch'.n = fetch.n) => fetch' = fetch
     /\ fetch'.status = "running" => fetch'.calls < 5
     /\ fetch'.status = "exhausted" => fetch'.calls = 5]_vars

C7_Witness ==
  /\ fetch.status = "ok"
  /\ fetch.calls = 5
  /\ fetch.sleeps = << 1, 2, 4, 8 >>

\* C8: a fetch whose List calls all fail ends after 5 calls and 4 sleeps and ends its
\* pass with an error; when it is the first fetch of the pass, the pass has made no
\* remote mutation and no store write.
C8_ExhaustedFetch ==
  fetch.status = "exhausted" =>
    /\ fetch.calls = 5
    /\ Len(fetch.sleeps) = 4
    /\ pc = "idle"
    /\ result = "error"
    /\ fetch.n = 1 =>
         /\ trace = << >>
         /\ finalizers = start.finalizers
         /\ conditions = start.conditions

C8_Witness ==
  /\ fetch.status = "exhausted"
  /\ fetch.n = 1
  /\ ~TokenStored
  /\ objExists

\* The pass is a Deleting pass whose first fetch succeeded with no title match.
DeletingWithoutMatch ==
  /\ result # "none"
  /\ mem.deletion
  /\ fetch.n = 1
  /\ fetch.status = "ok"
  /\ ~hasMatch(firstList)

\* C9: a Deleting pass whose fetch finds no match returns an error; it calls neither
\* Close nor Cleanup and leaves the stored finalizer list as it was.
C9_DeletionWithoutMatchFails ==
  DeletingWithoutMatch =>
    /\ pc \in {"handleDeletion", "idle"}
    /\ pc = "idle" => result = "error"
    /\ trace = << >>
    /\ finalizers = start.finalizers

C9_Witness ==
  /\ DeletingWithoutMatch
  /\ pc = "idle"
  /\ TokenStored

\* The object carries the token, is marked for deletion, and no call fails any more.
DeletionPending == healthy /\ objExists /\ deletionRequested /\ TokenStored

\* C10, as claimed: whatever happened before, once the object carries the token, is
\* marked for deletion and no call fails any more, the token is eventually removed.
C10_DeletionCompletes == DeletionPending ~> ~TokenStored

\* C10, amended: the token is eventually removed when, in addition, the tracker's
\* list keeps holding an issue that matches the object's title.
C10_DeletionCompletesWithMatch ==
  <>[]hasMatch(remote) => (DeletionPending ~> ~TokenStored)

C10_Witness ==
  /\ healthy
  /\ deletionRequested
  /\ ContainsFinalizer(start.finalizers, closeIssueFinalizer)
  /\ ~TokenStored
  /\ CloseSucceeded

\* The tracker's first issue matching the object's title is open.
MatchIsOpen == searchForIssue(TitleDesired, remote).state = "open"

StatusWriteFailedTwice ==
  /\ \E i \in 1..Len(trace) : trace[i].op = "StatusUpdate" /\ ~trace[i].ok
  /\ \E i \in 1..Len(trace) :
       trace[i].op = "Update" /\ trace[i].body = "UpdateIssueStatus" /\ ~trace[i].ok

\* C12: a pass whose status write and fallback write both failed has returned an
\* error to the dispatcher.
C12_StatusFailureFatal ==
  (pc = "idle" /\ StatusWriteFailedTwice) => result = "error"

\* Pairs of an upper-case and a lower-case letter of the titles in use.
CasePairs == {{"t", "T"}, {"i", "I"}, {"x", "X"}}

\* The two titles are equal up to the case of their letters.
SameIgnoringCase(s, t) ==
  /\ Len(s) = Len(t)
  /\ \A i \in 1..Len(s) : s[i] = t[i] \/ {s[i], t[i]} \in CasePairs

\* Positions of the list whose issue is not nil and has the desired title up to case.
Matching(title, list) ==
  {i \in 1..Len(list) : list[i] # None /\ SameIgnoringCase(list[i].title, title)}

\* C13: searchForIssue returns an issue whenever the list holds one whose title is
\* the desired title up to case, and the issue it returns is of the list and has the
\* desired title up to case.
C13_MatchIgnoresCase ==
  pc = "searchForIssue returned" =>
    /\ Matching(spec.title, remote) # {} => found # None
    /\ found # None =>
         /\ SameIgnoringCase(found.title, spec.title)
         /\ \E i \in 1..Len(remote) : remote[i] = found

C13_Witness ==
  /\ pc = "searchForIssue returned"
  /\ spec.title = TitleDesired
  /\ remote = << Issue(1, TitleUpper, "open", FALSE), Issue(2, TitleSecond, "open", FALSE) >>
  /\ found = Issue(1, TitleUpper, "open", FALSE)

\* C14: searchForIssue returns the entry at the lowest matching position of the
\* list, nil entries not counting, and nil when no position matches.
C14_FirstMatchWins ==
  pc = "searchForIssue returned" =>
    IF Matching(spec.title, remote) = {}
      THEN found = None
      ELSE /\ found.number \in Matching(spec.title, remote)
           /\ found = remote[found.number]
           /\ \A j \in Matching(spec.title, remote) : found.number <= j

C14_Witness ==
  /\ pc = "searchForIssue returned"
  /\ spec.title = TitleDesired
  /\ Len(remote) = 2
  /\ remote[1] = None
  /\ found = Issue(2, TitleUpper, "open", FALSE)

\* The stored condition of the type, after the check.
ConditionOf(conds, type) == conds[CHOOSE i \in 1..Len(conds) : conds[i].type = type]

HasType(conds, type) == \E i \in 1..Len(conds) : conds[i].type = type

\* C15: after CheckIfOpen on an issue, the IssueIsOpen condition has status True
\* exactly when the state is "open"; the condition the check wrote has reason
\* IssueIsOpen and message "Issue is open" for "open", and reason "IssueIs"+s and
\* message "Issue is "+s for any other state s.
C15_OpenConditionFromState ==
  (pc = "CheckIfOpen returned" /\ refetched # None) =>
    /\ HasType(mem.conditions, "IssueIsOpen")
    /\ LET c == ConditionOf(mem.conditions, "IssueIsOpen")
           st == refetched.state
       IN /\ (c.status = "True") = (st = "open")
          /\ (c.status = "False") = (st # "open")
          /\ result = "true" =>
               IF st = "open"
                 THEN c.reason = << "IssueIsOpen" >> /\ c.message = << "Issue is open" >>
                 ELSE c.reason = << "IssueIs", st >> /\ c.message = << "Issue is ", st >>

C15_Witness ==
  /\ pc = "CheckIfOpen returned"
  /\ refetched # None
  /\ refetched.state = ""
  /\ result = "true"
  /\ ConditionOf(mem.conditions, "IssueIsOpen").reason = << "IssueIs", "" >>

\* C16: after CheckForPR on an issue, the IssueHasPR condition has status True
\* exactly when the issue has a linked pull request, whatever the issue's state; the
\* condition the check wrote has reason IssueHasPR or IssueHasNoPR accordingly.
C16_PRConditionFromLinks ==
  (pc = "CheckForPR returned" /\ refetched # None) =>
    /\ HasType(mem.conditions, "IssueHasPR")
    /\ LET c == ConditionOf(mem.conditions, "IssueHasPR")
       IN /\ (c.status = "True") = refetched.hasPR
          /\ (c.status = "False") = ~refetched.hasPR
          /\ result = "true" =>
               c.reason = IF refetched.hasPR THEN << "IssueHasPR" >> ELSE << "IssueHasNoPR" >>

C16_Witness ==
  /\ pc = "CheckForPR returned"
  /\ refetched # None
  /\ refetched.hasPR
  /\ refetched.state = "closed"
  /\ result = "true"
  /\ ConditionOf(mem.conditions, "IssueHasPR").status = "True"

\* The type and the status of the condition the returned check computed.
CheckedType == IF pc = "CheckIfOpen returned" THEN "IssueIsOpen" ELSE "IssueHasPR"

CheckedStatus ==
  IF pc = "CheckIfOpen returned"
    THEN (IF refetched.state = "open" THEN "True" ELSE "False")
    ELSE (IF refetched.hasPR THEN "True" ELSE "False")

\* The stored conditions had the checked type with the checked status.
SameStatusStored ==
  \E i \in 1..Len(start.conditions) :
    /\ start.conditions[i].type = CheckedType
    /\ start.conditions[i].status = CheckedStatus

\* C17: a check on an issue returns false and leaves every stored condition as it
\* was when the type is stored with the same status; otherwise it returns true and
\* the type is stored with the new status, rewritten in place or appended; in both
\* cases the conditions of the other type are as they were.
C17_RewriteOnStatusChangeOnly ==
  (pc \in {"CheckIfOpen returned", "CheckForPR returned"} /\ refetched # None) =>
    LET before == start.conditions
        after == mem.conditions
    IN /\ SameStatusStored => (result = "false" /\ after = before)
       /\ ~SameStatusStored =>
            /\ result = "true"
            /\ HasType(after, CheckedType)
            /\ ConditionOf(after, CheckedType).status = CheckedStatus
            /\ ConditionOf(after, CheckedType).reason # << "IssueIs", "old" >>
            /\ Len(after) = Len(before) + (IF HasType(before, CheckedType) THEN 0 ELSE 1)
       /\ \A i \in 1..Len(before) :
            before[i].type # CheckedType => after[i] = before[i]

C17_Witness ==
  /\ pc = "CheckIfOpen returned"
  /\ refetched # None
  /\ refetched.state = "closed"
  /\ result = "false"
  /\ Len(mem.conditions) = 2
  /\ ConditionOf(mem.conditions, "IssueIsOpen").reason = << "IssueIs", "old" >>

\* Positions of the slashes of a reference.
Slashes(s) == {i \in 1..Len(s) : s[i] = "/"}

NumSegments(s) == Cardinality(Slashes(s)) + 1

\* Position of the n-th slash, n >= 1.
NthSlash(s, n) ==
  CHOOSE i \in Slashes(s) : Cardinality({j \in Slashes(s) : j <= i}) = n

\* The k-th segment, counted from 0: what stands between two slashes.
SegmentAt(s, k) ==
  LET lo == IF k = 0 THEN 0 ELSE NthSlash(s, k)
      hi == IF k = NumSegments(s) - 1 THEN Len(s) + 1 ELSE NthSlash(s, k + 1)
  IN SubSeq(s, lo + 1, hi - 1)

\* C18: ParseRepoURL returns segments 3 and 4 of a reference of at least 5 segments,
\* whatever follows them, and an error with no owner and no repo for one of fewer.
C18_ParseRepoURL ==
  pc = "ParseRepoURL returned" =>
    IF NumSegments(spec.repo) >= 5
      THEN /\ ~parsed.err
           /\ parsed.owner = SegmentAt(spec.repo, 3)
           /\ parsed.repo = SegmentAt(spec.repo, 4)
      ELSE /\ parsed.err
           /\ parsed.owner = << >>
           /\ parsed.repo = << >>

C18_Witness ==
  /\ pc = "ParseRepoURL returned"
  /\ NumSegments(spec.repo) = 6
  /\ ~parsed.err
  /\ parsed.owner = << "o" >>
  /\ parsed.repo = << "r" >>
  /\ SegmentAt(spec.repo, 5) = << "o" >>

\* C19: for an object whose repository reference has fewer than 5 segments, no pass
\* goes beyond the parse: no List, Create, Edit or Close call, no store write, the
\* stored finalizers and conditions as they were; a pass that read the object, marked
\* for deletion or not, returned an error.
C19_MalformedReferenceFatal ==
  spec.repo = BadURL =>
    /\ pc = "idle"
    /\ trace = << >>
    /\ fetch.n = 0
    /\ fetch.calls = 0
    /\ finalizers = start.finalizers
    /\ ~TokenStored
    /\ conditions = << >>
    /\ mem.fresh => result = "error"
    /\ result = "ok" => ~objExists

C19_Witness ==
  /\ spec.repo = BadURL
  /\ objExists
  /\ mem.fresh
  /\ mem.deletion
  /\ result = "error"

\* Number of times the token stands in a finalizer list.
TokenCount(fs) == Cardinality({i \in 1..Len(fs) : fs[i] = closeIssueFinalizer})

\* C20: a step of Ensure on an object that holds the token writes nothing and leaves
\* the list as it is; on an object without the token it appends the token and makes
\* one store write, which stores the new list when it succeeds; either way the
\* object then holds the token exactly once.
C20_EnsureIdempotent ==
  [][(pc = "Ensure" /\ pc' # "Ensure") =>
       /\ TokenCount(mem'.finalizers) = 1
       /\ IF TokenCount(mem.finalizers) > 0
            THEN /\ trace' = trace
                 /\ mem'.finalizers = mem.finalizers
                 /\ finalizers' = finalizers
                 /\ pc' # "idle"
            ELSE /\ mem'.finalizers = Append(mem.finalizers, closeIssueFinalizer)
                 /\ Len(trace') = Len(trace) + 1
                 /\ trace'[Len(trace')].op = "Update"
                 /\ trace'[Len(trace')].ok => finalizers' = mem'.finalizers
                 /\ ~trace'[Len(trace')].ok =>
                      (finalizers' = finalizers /\ pc' = "idle" /\ result' = "error")]_vars

C20_Witness ==
  /\ pc \in {"handleNewIssue", "handleUpdatedIssue"}
  /\ trace = << >>
  /\ TokenCount(start.finalizers) = 1
  /\ finalizers = start.finalizers
  /\ Len(finalizers) = 2

\* C21: a successful pass that re-fetches the issue in state "merged" after a
\* successful pass that re-fetched it in state "open" writes status once and stores
\* IssueIsOpen False with reason "IssueIsmerged" and message "Issue is merged"; after
\* a successful pass that re-fetched it "merged" with the same pull request link, it
\* writes no status.
C21_MergedWrittenOnce ==
  (Clean /\ prev.clean /\ refetched.state = "merged") =>
    /\ prev.state = "open" =>
         /\ Calls("StatusUpdate") = 1
         /\ HasType(conditions, "IssueIsOpen")
         /\ ConditionOf(conditions, "IssueIsOpen") =
              [type |-> "IssueIsOpen", status |-> "False",
               reason |-> << "IssueIs", "merged" >>,
               message |-> << "Issue is ", "merged" >>]
    /\ (prev.state = "merged" /\ prev.hasPR = refetched.hasPR) =>
         Calls("StatusUpdate") = 0

C21_Witness ==
  /\ Clean
  /\ prev.clean
  /\ prev.state = "open"
  /\ refetched.state = "merged"
  /\ Calls("StatusUpdate") = 1
  /\ Calls("Edit") = 1

\* The stored conditions hold both types with the statuses the issue gives.
StatusesStoredFor(issue) ==
  /\ HasType(conditions, "IssueIsOpen")
  /\ HasType(conditions, "IssueHasPR")
  /\ (ConditionOf(conditions, "IssueIsOpen").status = "True") = (issue.state = "open")
  /\ (ConditionOf(conditions, "IssueIsOpen").status = "False") = (issue.state # "open")
  /\ (ConditionOf(conditions, "IssueHasPR").status = "True") = issue.hasPR
  /\ (ConditionOf(conditions, "IssueHasPR").status = "False") = ~issue.hasPR

\* C22: after a pass in which every call succeeded and the re-fetch found a match,
\* the stored statuses of both conditions are those of the re-fetched issue; a pass
\* that began with no conditions, called Create and re-fetched an open issue with no
\* pull request leaves IssueHasPR=False/IssueHasNoPR and IssueIsOpen=True/IssueIsOpen.
C22_StatusMatchesRefetch ==
  Clean =>
    /\ StatusesStoredFor(refetched)
    /\ (/\ Calls("Create") = 1
        /\ start.conditions = << >>
        /\ refetched.state = "open"
        /\ ~refetched.hasPR) =>
         conditions =
           << [type |-> "IssueHasPR", status |-> "False",
               reason |-> << "IssueHasNoPR" >>, message |-> << "Issue has no PR" >>],
              [type |-> "IssueIsOpen", status |-> "True",
               reason |-> << "IssueIsOpen" >>, message |-> << "Issue is open" >>] >>

C22_Witness ==
  /\ Clean
  /\ Calls("Create") = 1
  /\ trace[Len(trace)].op = "StatusUpdate"
  /\ start.conditions = << >>
  /\ Len(conditions) = 2
  /\ refetched.state = "open"
  /\ ~refetched.hasPR

\* C23: a pass makes at most one call among Create, Edit and Close.
C23_OneMutationPerPass ==
  Calls("Create") + Calls("Edit") + Calls("Close") <= 1

C23_Witness ==
  /\ pc = "idle"
  /\ Calls("Create") = 1
  /\ \E i \in 1..Len(trace) : trace[i].op = "StatusUpdate" /\ ~trace[i].ok
  /\ \E i \in 1..Len(trace) : trace[i].op = "Update" /\ trace[i].body = "UpdateIssueStatus"

\* The pass found a match in its first fetch for an object not marked for deletion,
\* ensured the token and has gone through handleUpdatedIssue's Edit.
PastEdit ==
  /\ issueExists(found)
  /\ ~mem.deletion
  /\ pc \notin {"Ensure", "handleUpdatedIssue"}
  /\ \A i \in 1..Len(trace) : trace[i].body = "Ensure" => trace[i].ok

\* C24: such a pass has called Edit once, with the number of the first entry of its
\* first list that has the object's title up to case and with the description the
\* pass read, also when the pass before it stored the same description; a status
\* write of the pass comes after the Edit and after the second fetch.
C24_EditOnceThenRefetch ==
  PastEdit =>
    /\ Calls("Edit") = 1
    /\ Calls("Create") = 0
    /\ \A i \in 1..Len(trace) :
         /\ trace[i].op = "Edit" =>
              /\ trace[i].n = found.number
              /\ found = firstList[found.number]
              /\ found.number \in Matching(TitleDesired, firstList)
              /\ \A j \in Matching(TitleDesired, firstList) : found.number <= j
              /\ trace[i].body = mem.spec.description
              /\ trace[i].ok => (pc = "FindIssue" \/ fetch.n = 2)
              /\ ~trace[i].ok => (pc = "idle" /\ fetch.n = 1)
         /\ trace[i].op = "StatusUpdate" =>
              /\ fetch.n = 2
              /\ fetch.status = "ok"
              /\ \E j \in 1..(i - 1) : trace[j].op = "Edit" /\ trace[j].ok

C24_Witness ==
  /\ Clean
  /\ prev.clean
  /\ spec.description = "D1"
  /\ Calls("Edit") = 1
  /\ found.number = 2
  /\ trace[Len(trace)].op = "Edit"

\* C25: when the second fetch of a pass succeeds with a list that holds no issue of
\* the object's title, the pass ends there with success: it has written no status,
\* writes nothing more, and the stored conditions are those it began with.
C25_RefetchWithoutMatch ==
  [][(/\ pc = "fetchAllIssues"
      /\ fetch.n = 2
      /\ fetch'.status = "ok"
      /\ Matching(TitleDesired, remote) = {})
       => (/\ pc' = "idle"
           /\ result' = "ok"
           /\ trace' = trace
           /\ \A i \in 1..Len(trace) : trace[i].op # "StatusUpdate"
           /\ conditions' = start.conditions)]_vars

C25_Witness ==
  /\ pc = "idle"
  /\ result = "ok"
  /\ fetch.n = 2
  /\ fetch.status = "ok"
  /\ refetched = None
  /\ Calls("Create") = 1
  /\ conditions = start.conditions

\* C26: when a pass created the issue and its status write failed, the created issue
\* stays in the tracker, and the next pass of the object whose first list shows an
\* issue of the title, the object not being marked for deletion, calls no Create,
\* calls Edit once, and ends, when all its calls succeed, with the statuses of the
\* re-fetched issue stored, by one status write when nothing was stored before.
C26_NextPassRecordsStatus ==
  /\ Unrecorded => Len(remote) > Len(firstList)
  /\ (/\ prev.unrecorded
      /\ ~mem.deletion
      /\ Matching(TitleDesired, firstList) # {}) =>
       /\ Calls("Create") = 0
       /\ Calls("Close") = 0
       /\ issueExists(found)
       /\ PastEdit => Calls("Edit") = 1
       /\ Clean =>
            /\ StatusesStoredFor(refetched)
            /\ start.conditions = << >> => Calls("StatusUpdate") = 1

C26_Witness ==
  /\ prev.unrecorded
  /\ Clean
  /\ Calls("Edit") = 1
  /\ Calls("StatusUpdate") = 1
  /\ start.conditions = << >>
  /\ Len(conditions) = 2

EnsureWriteFailed ==
  \E i \in 1..Len(trace) : trace[i].op = "Update" /\ trace[i].body = "Ensure" /\ ~trace[i].ok

CleanupWriteFailed ==
  \E i \in 1..Len(trace) : trace[i].op = "Update" /\ trace[i].body = "Cleanup" /\ ~trace[i].ok

\* C27: a pass whose Ensure write failed has returned an error, has called no Create
\* and no Edit and has left the stored finalizers as they were; a pass whose Cleanup
\* write failed after a successful Close has returned an error and has left the
\* stored finalizers as they were, so a token stored when the pass began is still
\* stored; and an object marked for deletion exists as long as the token is stored.
C27_FinalizerWriteFailureBlocks ==
  /\ EnsureWriteFailed =>
       /\ pc = "idle"
       /\ result = "error"
       /\ Calls("Create") = 0
       /\ Calls("Edit") = 0
       /\ trace[Len(trace)].body = "Ensure"
       /\ finalizers = start.finalizers
  /\ CleanupWriteFailed =>
       /\ CloseSucceeded
       /\ pc = "idle"
       /\ result = "error"
       /\ trace[Len(trace)].body = "Cleanup"
       /\ finalizers = start.finalizers
       /\ ContainsFinalizer(start.finalizers, closeIssueFinalizer) => TokenStored
  /\ (deletionRequested /\ TokenStored) => objExists

C27_Witness ==
  /\ CleanupWriteFailed
  /\ CloseSucceeded
  /\ TokenStored
  /\ objExists
  /\ deletionRequested
  /\ mem.fresh
  /\ result = "error"

C27_EnsureWitness ==
  /\ EnsureWriteFailed
  /\ mem.fresh
  /\ result = "error"

\* The place of a condition type in the order of the type names.
TypeRank(type) ==
  CASE type = "IssueHasPR" -> 1
    [] type = "IssueIsOpen" -> 2
    [] OTHER -> 0

\* C28: the stored conditions hold each type at most once, hold only the types
\* IssueIsOpen and IssueHasPR, each with status True or False, and are in the order
\* of their type names.
C28_ConditionsWellFormed ==
  /\ \A i, j \in 1..Len(conditions) :
       conditions[i].type = conditions[j].type => i = j
  /\ \A i \in 1..Len(conditions) :
       /\ conditions[i].type \in {"IssueIsOpen", "IssueHasPR"}
       /\ conditions[i].status \in {"True", "False"}
  /\ \A i, j \in 1..Len(conditions) :
       i < j => TypeRank(conditions[i].type) < TypeRank(conditions[j].type)

C28_Witness ==
  /\ Clean
  /\ Len(start.conditions) = 2
  /\ Calls("StatusUpdate") = 1
  /\ Len(conditions) = 2
  /\ conditions[1] = start.conditions[1]
  /\ conditions[2].status # start.conditions[2].status

\* The pass ended with a successful Status().Update.
StatusWritten ==
  /\ pc = "idle"
  /\ trace # << >>
  /\ trace[Len(trace)].op = "StatusUpdate"
  /\ trace[Len(trace)].ok

\* C29: the statuses a pass has written are those of the issue its second fetch
\* returned, which followed its Create or Edit, also when the issue matched by its
\* first fetch had another state or pull request link.
C29_StatusFromRefetch ==
  StatusWritten =>
    /\ fetch.n = 2
    /\ fetch.status = "ok"
    /\ issueExists(refetched)
    /\ Len(trace) >= 2
    /\ trace[Len(trace) - 1].op \in {"Create", "Edit"}
    /\ trace[Len(trace) - 1].ok
    /\ StatusesStoredFor(refetched)

C29_Witness ==
  /\ StatusWritten
  /\ issueExists(found)
  /\ found.number = refetched.number
  /\ found.state = "open"
  /\ refetched.state = "closed"
  /\ ConditionOf(conditions, "IssueIsOpen").status = "False"

ComputedOpen(issue) == IF issue.state = "open" THEN "True" ELSE "False"

ComputedPR(issue) == IF issue.hasPR THEN "True" ELSE "False"

\* The pass began with both conditions stored; the re-fetched issue gives another
\* status than the stored one for the type `changed` and the stored one for `same`.
OnlyChanged(changed, same, computedChanged, computedSame) ==
  /\ Clean
  /\ HasType(start.conditions, changed)
  /\ HasType(start.conditions, same)
  /\ ConditionOf(start.conditions, changed).status # computedChanged
  /\ ConditionOf(start.conditions, same).status = computedSame

\* C30: a pass in which every call succeeded and for which one of the two computed
\* statuses differs from the stored one and the other does not has made exactly one
\* status write; after it the changed condition is stored with the computed status
\* and the other condition is stored as before.
C30_SingleChangePersisted ==
  /\ OnlyChanged("IssueHasPR", "IssueIsOpen", ComputedPR(refetched),
                 ComputedOpen(refetched)) =>
       /\ Calls("StatusUpdate") = 1
       /\ ConditionOf(conditions, "IssueHasPR").status = ComputedPR(refetched)
       /\ ConditionOf(conditions, "IssueIsOpen") = ConditionOf(start.conditions, "IssueIsOpen")
  /\ OnlyChanged("IssueIsOpen", "IssueHasPR", ComputedOpen(refetched),
                 ComputedPR(refetched)) =>
       /\ Calls("StatusUpdate") = 1
       /\ ConditionOf(conditions, "IssueIsOpen").status = ComputedOpen(refetched)
       /\ ConditionOf(conditions, "IssueHasPR") = ConditionOf(start.conditions, "IssueHasPR")

C30_Witness ==
  /\ OnlyChanged("IssueHasPR", "IssueIsOpen", ComputedPR(refetched),
                 ComputedOpen(refetched))
  /\ Calls("StatusUpdate") = 1
  /\ ConditionOf(conditions, "IssueHasPR").status = "True"
  /\ ConditionOf(start.conditions, "IssueHasPR").status = "False"

\* C31: a pass in which every call succeeded, which re-fetched the issue in a state
\* other than "open" after a successful pass that re-fetched it in another state
\* other than "open" with the same pull request link, has written no status and has
\* left the stored conditions as they were; when the earlier pass wrote the first
\* conditions of the object, IssueIsOpen still has the reason and the message of
\* the earlier state.
C31_NonOpenToNonOpenNotRewritten ==
  (/\ Clean
   /\ prev.clean
   /\ prev.state # "open"
   /\ refetched.state # "open"
   /\ prev.state # refetched.state
   /\ prev.hasPR = refetched.hasPR) =>
     /\ Calls("StatusUpdate") = 0
     /\ conditions = start.conditions
     /\ HasType(conditions, "IssueIsOpen")
     /\ ConditionOf(conditions, "IssueIsOpen").status = "False"
     /\ (prev.startEmpty /\ prev.statusWrites = 1) =>
          /\ ConditionOf(conditions, "IssueIsOpen").reason = << "IssueIs", prev.state >>
          /\ ConditionOf(conditions, "IssueIsOpen").message = << "Issue is ", prev.state >>

C31_Witness ==
  /\ Clean
  /\ prev.clean
  /\ prev.state = "closed"
  /\ refetched.state = "merged"
  /\ prev.hasPR = refetched.hasPR
  /\ Calls("Edit") = 1
  /\ Calls("StatusUpdate") = 0
  /\ ConditionOf(conditions, "IssueIsOpen").reason = << "IssueIs", "closed" >>

\* The call at place i of the pass is the fallback r.Client.Update.
IsFallback(i) == trace[i].op = "Update" /\ trace[i].body = "UpdateIssueStatus"

FallbackCalls == Cardinality({i \in 1..Len(trace) : IsFallback(i)})

\* C32: a pass makes the fallback write at most once, right after a failed status
\* write and after every failed status write; a pass with a successful status write
\* or without a status write makes none; and a pass whose fallback write succeeded
\* has ended there with success.
C32_FallbackOnceAfterFailure ==
  /\ FallbackCalls <= 1
  /\ \A i \in 1..Len(trace) :
       /\ IsFallback(i) =>
            /\ i > 1
            /\ trace[i - 1].op = "StatusUpdate"
            /\ ~trace[i - 1].ok
            /\ i = Len(trace)
            /\ pc = "idle"
            /\ trace[i].ok => result = "ok"
       /\ (trace[i].op = "StatusUpdate" /\ ~trace[i].ok) =>
            \/ i = Len(trace) /\ pc = "StatusFallback"
            \/ i + 1 = Len(trace) /\ IsFallback(i + 1)
       /\ (trace[i].op = "StatusUpdate" /\ trace[i].ok) =>
            /\ FallbackCalls = 0
            /\ i = Len(trace)
            /\ pc = "idle"
  /\ Calls("StatusUpdate") = 0 => FallbackCalls = 0
  /\ Calls("StatusUpdate") <= 1

C32_Witness ==
  /\ pc = "idle"
  /\ FallbackCalls = 1
  /\ trace[Len(trace)].ok
  /\ ~trace[Len(trace) - 1].ok
  /\ result = "ok"

\* C33: once the context is cancelled during a fetch, the fetch goes on: it is in its
\* loop with one sleep of the full delay behind every failed List, or it has ended
\* after 5 List calls and the sleeps of 1, 2, 4 and 8 delays with the pass's error;
\* a pass dispatched later under the cancelled context fails at its read.
C33_CancellationDoesNotShortenRetry ==
  cancelled =>
    \/ /\ pc = "fetchAllIssues"
       /\ fetch.status = "running"
       /\ fetch.attempt <= maxRetries
       /\ fetch.calls = fetch.attempt - 1
       /\ fetch.sleeps = SubSeq(Delays, 1, fetch.calls)
    \/ /\ pc = "idle"
       /\ result = "error"
       /\ fetch.status = "exhausted"
       /\ fetch.calls = maxRetries
       /\ fetch.sleeps = Delays
    \/ /\ pc = "idle"
       /\ result = "error"
       /\ fetch.n = 0
       /\ trace = << >>

C33_Witness ==
  /\ cancelled
  /\ pc = "idle"
  /\ result = "error"
  /\ fetch.n = 2
  /\ fetch.status = "exhausted"
  /\ fetch.calls = 5
  /\ fetch.sleeps = << 1, 2, 4, 8 >>
  /\ Calls("Create") = 1

\* The issues that carry the object's title as the engine wrote it: the tracker's
\* other users give other titles, so these are the issues the engine created and
\* nobody renamed.
CreatedIssues == {i \in 1..Len(remote) : remote[i].title = spec.title}

\* C34: the tracker never holds two issues the engine created for the object; a
\* pass that has called Create had a successful first fetch with no issue of the
\* title up to case; and a pass whose first list shows an issue of the title calls
\* no Create and, once past its branch without a deletion request, has called Edit.
C34_CreateAtMostOnce ==
  /\ Cardinality(CreatedIssues) <= 1
  /\ Calls("Create") <= 1
  /\ Calls("Create") = 1 =>
       /\ fetch.n >= 1
       /\ fetch.n = 1 => fetch.status = "ok"
       /\ found = None
       /\ Matching(TitleDesired, firstList) = {}
       /\ \A i \in 1..Len(firstList) : firstList[i].title # spec.title
  /\ Matching(TitleDesired, firstList) # {} =>
       /\ Calls("Create") = 0
       /\ PastEdit => Calls("Edit") = 1

C34_Witness ==
  /\ pc = "idle"
  /\ Calls("Edit") = 1
  /\ Calls("Create") = 0
  /\ issueExists(found)
  /\ found.title = TitleDesired
  /\ found.number = 2
  /\ Cardinality(CreatedIssues) = 1

\* The issues of the tracker that carry the title the objects share.
TitledIssues == {i \in 1..Len(remote) : SameIgnoringCase(remote[i].title, spec.title)}

C36_DeletingPassFrame ==
  mem.deletion =>
    /\ Calls("Create") = 0
    /\ Calls("Edit") = 0
    /\ Calls("StatusUpdate") = 0
    /\ Calls("Close") <= 1
    /\ Calls("Update") <= 1
    /\ \A i \in 1..Len(trace) : trace[i].op = "Update" => trace[i].body = "Cleanup"
    /\ \A i \in 1..Len(trace) : trace[i].op \in {"Close", "Update"}
    /\ pc \in {"idle", "FindIssue", "fetchAllIssues", "handleDeletion", "CloseIssue",
               "Cleanup"}
    /\ fetch.n <= 1
    /\ conditions = start.conditions
    /\ \/ finalizers = start.finalizers
       \/ finalizers = RemoveFinalizer(start.finalizers, closeIssueFinalizer)
    /\ ~ContainsFinalizer(start.finalizers, closeIssueFinalizer) => ~TokenStored

C36_Witness ==
  /\ mem.deletion
  /\ pc = "idle"
  /\ result = "ok"
  /\ Calls("Close") = 1
  /\ Calls("Update") = 1
  /\ Len(trace) = 2
  /\ Len(conditions) = 2
  /\ conditions = start.conditions
  /\ ConditionOf(conditions, "IssueIsOpen").status = "True"
  /\ ~TokenStored

\* C37: a pass that begins when the store no longer holds the object ends at its
\* read without a List, a remote mutation or a store write, with success whenever
\* the read itself does not fail; a pass that ends at its start with success found
\* no object; and every pass that ends at its start has made no call.  (A step from
\* idle that leaves the store, the tracker and the environment as they are is the
\* start of a pass.)
C37_MissingObjectIsSuccess ==
  [][(/\ pc = "idle"
      /\ UNCHANGED << storeVars, remoteVars, healthy, cancelled, objs >>)
       => /\ ~objExists =>
               /\ pc' = "idle"
               /\ result' \in {"ok", "error"}
               /\ healthy => result' = "ok"
          /\ (pc' = "idle" /\ result' = "ok") => ~objExists
          /\ pc' = "idle" =>
               /\ result' \in {"ok", "error"}
               /\ trace' = << >>
               /\ fetch'.n = 0
               /\ fetch'.calls = 0]_vars

C37_Witness ==
  /\ healthy
  /\ ~objExists
  /\ pc = "idle"
  /\ result = "ok"
  /\ trace = << >>
  /\ fetch.n = 0

\* The most List calls the pass can have made so far: the fetches before the
\* running one ended within maxRetries calls each.
ListCallsAtMost == (IF fetch.n >= 1 THEN fetch.n - 1 ELSE 0) * maxRetries + fetch.calls

StoreWrites == Calls("Update") + Calls("StatusUpdate")

\* C38: a pass makes at most two fetches of at most 5 List calls each, so at most 10
\* List calls, at most one Create, Edit or Close, and at most 3 store writes: one by
\* Ensure or Cleanup, the status write and its fallback; a pass that read a deletion
\* request makes one fetch, so at most 5 List calls.
C38_BoundedCallsPerPass ==
  /\ fetch.n <= 2
  /\ fetch.calls <= maxRetries
  /\ fetch.attempt <= maxRetries + 1
  /\ fetch.status = "running" => fetch.attempt <= maxRetries
  /\ ListCallsAtMost <= 2 * maxRetries
  /\ Calls("Create") + Calls("Edit") + Calls("Close") <= 1
  /\ StoreWrites <= 3
  /\ Calls("StatusUpdate") <= 1
  /\ Cardinality({i \in 1..Len(trace) : trace[i].body \in {"Ensure", "Cleanup"}}) <= 1
  /\ Len(trace) <= 4
  /\ mem.deletion =>
       /\ fetch.n <= 1
       /\ ListCallsAtMost <= maxRetries
       /\ StoreWrites <= 1

C38_Witness ==
  /\ pc = "idle"
  /\ fetch.n = 2
  /\ fetch.calls = maxRetries
  /\ fetch.status = "ok"
  /\ Calls("Create") = 1
  /\ Calls("Update") = 2
  /\ Calls("StatusUpdate") = 1
  /\ Len(trace) = 4

====
